---- MODULE Spec2Model ----
(***************************************************************************)
(* Expection: one failure-signalling body, two channels.  The model has    *)
(* two parts.                                                              *)
(*   Spec        runs the repository's divide_by operations (the one of    *)
(*               testexpection.cpp with its four failure strategies and    *)
(*               the one of example.cpp) call after call, frame by frame:  *)
(*               call, body, constructor, return or unwinding, handler.    *)
(*   SpecResolve applies the overload resolution of make_failure/failure   *)
(*               to arbitrary call shapes and error-type capabilities.     *)
(***************************************************************************)
EXTENDS Integers, Sequences, FiniteSets, TLC

VARIABLES
  build,      \* value of the macro EXPECTION_DEFAULTPOLICY, or "unset"
  args,       \* [n, d]: numerator and denominator the caller passes
  pc,         \* position of the running program
  cur,        \* the call in progress: [op, F, parg, handler]
  stack,      \* call stack, bottom first: sequence of frame names
  inflight,   \* exception object being propagated
  thrown,     \* exception object as the factory built it
  retval,     \* value travelling down the return path
  calls,      \* construction paths evaluated inside the failure constructor
  ctorPols,   \* Policy arguments the constructors were instantiated with
  trace,      \* statements executed after the constructor call
  delivered,  \* number of handlers the exception was delivered to
  prev,       \* outcome of the previous (sibling) call
  site,       \* shape of the failure-constructor call being resolved
  selected,   \* overload chosen for site
  outcome     \* channel the resolved constructor used (SpecResolve)

vars == <<build, args, pc, cur, stack, inflight, thrown, retval, calls,
          ctorPols, trace, delivered, prev, site, selected, outcome>>

\* ---------------------------------------------------------------- bounds
MaxInt == 2
MaxArgs == 3

\* ---------------------------------------------------------------- Policy
Policy == {"Exceptions", "Expected"}

BuildValues == {"unset"} \cup Policy

DefaultPolicyExpected(b) == IF b = "unset" THEN "Expected" ELSE b

\* #ifndef EXPECTION_DEFAULTPOLICY / #define ... Exceptions; DefaultPolicy
DefaultPolicy(b) == IF b = "unset" THEN "Exceptions" ELSE b

\* Policy P = DefaultPolicy: the template argument, or the default
EffectivePolicy(parg, b) == IF parg = "omitted" THEN DefaultPolicy(b) ELSE parg

\* ResultType<R, E, P>: R under Exceptions, std::expected<R, E> otherwise
ResultType(P) == IF P = "Exceptions" THEN "double" ELSE "expected"

\* ---------------------------------------------------------------- values
NoQuot == [num |-> 0, den |-> 0]
NoErr == [kind |-> "none"]
NoExc == [type |-> "none", what |-> ""]
NoVal == [tag |-> "none", has_value |-> FALSE, val |-> NoQuot, err |-> NoErr]

Abs(x) == IF x < 0 THEN -x ELSE x

RECURSIVE GCD(_, _)
GCD(a, b) == IF b = 0 THEN a ELSE GCD(b, a % b)

\* static_cast<double>(numerator) / denominator, d # 0: the quotient as a
\* reduced fraction with the sign in the numerator
Quot(n, d) ==
  LET g == GCD(Abs(n), Abs(d))
      s == IF (n < 0) # (d < 0) THEN -1 ELSE 1
  IN [num |-> s * (Abs(n) \div g), den |-> Abs(d) \div g]

Bare(q) == [tag |-> "double", has_value |-> TRUE, val |-> q, err |-> NoErr]
ExpectedValue(q) == [tag |-> "expected", has_value |-> TRUE, val |-> q, err |-> NoErr]
ExpectedError(e) == [tag |-> "expected", has_value |-> FALSE, val |-> NoQuot, err |-> e]

\* std::unexpected<E>(e): the error wrapper before it becomes the result
Unexpected(e) == [tag |-> "unexpected", has_value |-> FALSE, val |-> NoQuot, err |-> e]

\* std::runtime_error(msg)
RuntimeError(msg) == [type |-> "runtime_error", what |-> msg]

\* ------------------------------------------------- DivideByError (client)
Kinds == {"DivideByZero"}

\* DivideByError::err_to_str
err_to_str(kind) == CASE kind = "DivideByZero" -> "Division by Zero"

\* DivideByError{k}
DivideByError(k) == [kind |-> k]

\* DivideByError::str()
str(e) == err_to_str(e.kind)

\* DivideByError::exception(Kind): in-place exception construction
InPlaceException(k) == RuntimeError(err_to_str(k))

ConversionExceptionKindName(e) == RuntimeError(e.kind)

\* DivideByError::exception(): conversion of an instance to an exception
ConversionException(e) == RuntimeError(err_to_str(e.kind))

\* DivideByErrorFunctor::unexpected / ::exception
FunctorUnexpected(k) == Unexpected(DivideByError(k))
FunctorException(k) == RuntimeError(err_to_str(k))

\* the lambdas make_unexpected / make_exception of divide_by
make_unexpected(k) == Unexpected(DivideByError(k))
make_exception(k) == RuntimeError(err_to_str(k))

\* --------------------------------------------------- library constructors
\* return of a std::unexpected<E> from a function returning std::expected<R, E>
ToResult(u) == ExpectedError(u.err)

successIgnoringPolicy(v, P) == Bare(v)

\* success<R, E, P>(val)
success(v, P) == IF P = "Exceptions" THEN Bare(v) ELSE ExpectedValue(v)

Thrown(e, path) == [chan |-> "thrown", exc |-> e, val |-> NoVal, calls |-> {path}]
Returned(v, path) == [chan |-> "returned", exc |-> NoExc, val |-> v, calls |-> {path}]

make_failure_functor_bothPaths(P, k) ==
  IF P = "Exceptions"
  THEN [Thrown(FunctorException(k), "Functor::exception")
          EXCEPT !.calls = {"Functor::exception", "Functor::unexpected"}]
  ELSE [Returned(ToResult(FunctorUnexpected(k)), "Functor::unexpected")
          EXCEPT !.calls = {"Functor::exception", "Functor::unexpected"}]

\* make_failure<R, E, Functor, P>(args...)
make_failure_functor(P, k) ==
  IF P = "Exceptions"
  THEN Thrown(FunctorException(k), "Functor::exception")
  ELSE Returned(ToResult(FunctorUnexpected(k)), "Functor::unexpected")

make_failure_callable_alwaysReturns(P, k) ==
  Returned(ToResult(make_unexpected(k)), "unexpected(args)")

\* make_failure<Result, Error, P>(unexpected, exception, args...)
make_failure_callable(P, k) ==
  IF P = "Exceptions"
  THEN Thrown(make_exception(k), "exception(args)")
  ELSE Returned(ToResult(make_unexpected(k)), "unexpected(args)")

make_failure_inplace_kindAsMessage(P, k) ==
  IF P = "Exceptions"
  THEN Thrown(RuntimeError(k), "Error::exception")
  ELSE Returned(ToResult(Unexpected(DivideByError(k))), "Error{args}")

\* make_failure<Result, Error, P>(args...)
make_failure_inplace(P, k) ==
  IF P = "Exceptions"
  THEN Thrown(InPlaceException(k), "Error::exception")
  ELSE Returned(ToResult(Unexpected(DivideByError(k))), "Error{args}")

\* failure<Result, P>(error)
failure(P, e) ==
  IF P = "Exceptions"
  THEN Thrown(ConversionException(e), "error.exception()")
  ELSE Returned(ToResult(Unexpected(e)), "unexpected(error)")

ExceptionPaths == {"Functor::exception", "exception(args)", "Error::exception",
                   "error.exception()"}
ValuePaths == {"Functor::unexpected", "unexpected(args)", "Error{args}",
               "unexpected(error)"}

\* --------------------------------------------------- return conversions
\* implicit conversion of a returned value to the declared return type:
\* identity, or double -> std::expected<double, E>; std::expected<double, E>
\* does not convert to double
Convertible(tag, rt) == tag = rt \/ (tag = "double" /\ rt = "expected")

ReturnConvert(v, rt) ==
  IF v.tag = "double" /\ rt = "expected" THEN ExpectedValue(v.val) ELSE v

\* ---------------------------------------------------- overload resolution
Overloads == {"Functor", "Callable", "InPlace", "Conversion"}

NoSite == [name |-> "none", targ |-> "none", nargs |-> 0,
           unexpectedCallable |-> FALSE, exceptionCallable |-> FALSE,
           exceptionConstructable |-> FALSE, functorException |-> FALSE,
           functorUnexpected |-> FALSE, exceptionConvertible |-> FALSE]

\* concept ErrorFunctor<T, Unexpected, Args...>
ErrorFunctor(s) == s.functorException /\ s.functorUnexpected
\* concept ExceptionCallable<T, Args...>
ExceptionCallable(s) == s.exceptionCallable
\* concept UnexpectedCallable<T, Error, Args...>
UnexpectedCallable(s) == s.unexpectedCallable
\* concept ExceptionConstructable<T, Args...>
ExceptionConstructable(s) == s.exceptionConstructable
\* concept ExceptionConvertible<T>
ExceptionConvertible(s) == s.exceptionConvertible

\* the requires-clause of each overload
Constraint(o, s) ==
  CASE o = "Functor" -> ErrorFunctor(s)
    [] o = "Callable" -> UnexpectedCallable(s) /\ ExceptionCallable(s)
    [] o = "InPlace" -> ExceptionConstructable(s)
    [] o = "Conversion" -> ExceptionConvertible(s)

\* the function name of each overload
OverloadName(o) == IF o = "Conversion" THEN "failure" ELSE "make_failure"

\* the explicit template argument that follows <Result, Error> (<Result> for
\* failure) against the template parameter in that position: a type
\* parameter (Functor) or the non-type parameter Policy P = DefaultPolicy
TemplateArgsOK(o, s) ==
  IF o = "Functor" THEN s.targ = "type" ELSE s.targ \in {"none", "policy"}

\* function parameters that are not the pack Args&&...
FixedParams(o) ==
  CASE o = "Functor" -> 0
    [] o = "Callable" -> 2
    [] o = "InPlace" -> 0
    [] o = "Conversion" -> 1

\* number of function arguments against the function parameter list
ArityOK(o, s) ==
  IF o = "Conversion" THEN s.nargs = 1 ELSE s.nargs >= FixedParams(o)

ViableUnconstrained(o, s) ==
  s.name = OverloadName(o) /\ TemplateArgsOK(o, s) /\ ArityOK(o, s)

\* o takes part in overload resolution for the call s
Viable(o, s) ==
  /\ s.name = OverloadName(o)
  /\ TemplateArgsOK(o, s)
  /\ ArityOK(o, s)
  /\ Constraint(o, s)

MoreSpecializedNever(a, b) == FALSE

\* partial ordering of the function templates: a parameter list with more
\* leading non-pack parameters is the more specialized one
MoreSpecialized(a, b) == FixedParams(a) > FixedParams(b)

\* the overload the call s resolves to; "rejected" when none is viable,
\* "ambiguous" when no viable overload is better than all others
Select(s) ==
  LET V == {o \in Overloads : Viable(o, s)}
      best == {a \in V : \A b \in V \ {a} : MoreSpecialized(a, b)}
  IN IF V = {} THEN "rejected"
     ELSE IF Cardinality(best) = 1 THEN CHOOSE a \in best : TRUE
     ELSE "ambiguous"

\* ------------------------------------------------------ the operations
FailureMethod == {"InPlace", "Functor", "Callable", "Conversion"}
PolicyArgs == {"omitted"} \cup Policy

\* the call sites of divide_by: inside a try block with a handler for
\* std::runtime_error (test) or std::exception (example), or outside any
Callers ==
  {[op |-> "test", handler |-> "runtime_error"], [op |-> "test", handler |-> "none"],
   [op |-> "example", handler |-> "exception"], [op |-> "example", handler |-> "none"]}

\* the failure strategies each divide_by offers
Methods(op) == IF op = "test" THEN FailureMethod ELSE {"InPlace"}

NoCall == [op |-> "none", F |-> "none", parg |-> "none", handler |-> "none"]

\* the failure-constructor call expression of divide_by for strategy F, with
\* what DivideByError, DivideByErrorFunctor and the lambdas offer for it
CallSite(F) ==
  CASE F = "InPlace" ->
         [NoSite EXCEPT !.name = "make_failure", !.targ = "policy", !.nargs = 1,
                        !.exceptionConstructable = TRUE]
    [] F = "Functor" ->
         [NoSite EXCEPT !.name = "make_failure", !.targ = "type", !.nargs = 1,
                        !.exceptionConstructable = TRUE,
                        !.functorException = TRUE, !.functorUnexpected = TRUE]
    [] F = "Callable" ->
         [NoSite EXCEPT !.name = "make_failure", !.targ = "policy", !.nargs = 3,
                        !.unexpectedCallable = TRUE, !.exceptionCallable = TRUE]
    [] F = "Conversion" ->
         [NoSite EXCEPT !.name = "failure", !.targ = "policy", !.nargs = 1,
                        !.exceptionConvertible = TRUE]

\* the Policy argument divide_by gives its failure constructor: P
FailurePolicy(op, parg, b) == EffectivePolicy(parg, b)

\* the Policy argument divide_by gives success: P in the test's divide_by,
\* none (so DefaultPolicy) in the example's
SuccessPolicy(op, parg, b) ==
  IF op = "example" THEN DefaultPolicy(b) ELSE EffectivePolicy(parg, b)

\* divide_by<P> instantiates: what its return statements yield converts to
\* its declared return type ResultType<double, DivideByError, P>
WellFormed(op, parg, b) ==
  /\ Convertible(ResultType(SuccessPolicy(op, parg, b)),
                 ResultType(EffectivePolicy(parg, b)))
  /\ Convertible(ResultType(FailurePolicy(op, parg, b)),
                 ResultType(EffectivePolicy(parg, b)))

NoResult == [op |-> "none", F |-> "none", parg |-> "none", P |-> "none",
             chan |-> "none", ret |-> NoVal, exc |-> NoExc, thrown |-> NoExc,
             calls |-> {}, ctorPols |-> {}, trace |-> <<>>, delivered |-> 0,
             strategy |-> "none"]

Pop(s) == SubSeq(s, 1, Len(s) - 1)
Top(s) == s[Len(s)]

HandlerInLibrary(frame) == IF frame = "caller" THEN cur.handler ELSE "exception"

\* the try block of a frame: only the caller's frame may have one
Handler(frame) == IF frame = "caller" THEN cur.handler ELSE "none"

Bases(type) == IF type = "runtime_error" THEN {"exception"} ELSE {}

\* catch (H &) takes an exception of type H or derived from H
Matches(h, type) == h = type \/ h \in Bases(type)

P == EffectivePolicy(cur.parg, build)

Result(chan) ==
  [op |-> cur.op, F |-> cur.F, parg |-> cur.parg, P |-> P, chan |-> chan,
   ret |-> retval, exc |-> inflight, thrown |-> thrown, calls |-> calls,
   ctorPols |-> ctorPols, trace |-> trace, delivered |-> delivered,
   strategy |-> selected]

Init ==
  /\ build \in BuildValues
  /\ args \in [n : -MaxInt..MaxInt, d : -MaxInt..MaxInt]
  /\ pc = "idle"
  /\ cur = NoCall
  /\ stack = <<"caller">>
  /\ inflight = NoExc
  /\ thrown = NoExc
  /\ retval = NoVal
  /\ calls = {}
  /\ ctorPols = {}
  /\ trace = <<>>
  /\ delivered = 0
  /\ prev = NoResult
  /\ site = NoSite
  /\ selected = "unresolved"
  /\ outcome = "none"

\* caller: divide_by<F, P>(n, d)
Call ==
  /\ pc = "idle"
  /\ \E c \in Callers : \E F \in Methods(c.op) : \E parg \in PolicyArgs :
       /\ WellFormed(c.op, parg, build)
       /\ cur' = [op |-> c.op, F |-> F, parg |-> parg, handler |-> c.handler]
  /\ stack' = <<"caller", "divide_by">>
  /\ pc' = "divide_by"
  /\ inflight' = NoExc
  /\ thrown' = NoExc
  /\ retval' = NoVal
  /\ calls' = {}
  /\ ctorPols' = {}
  /\ trace' = <<>>
  /\ delivered' = 0
  /\ site' = NoSite
  /\ selected' = "unresolved"
  /\ UNCHANGED <<build, args, prev, outcome>>

\* the build rejects a divide_by<P> whose return statement does not convert
Reject ==
  /\ pc = "idle"
  /\ \E c \in Callers : \E F \in Methods(c.op) : \E parg \in PolicyArgs :
       /\ ~WellFormed(c.op, parg, build)
       /\ prev' = [NoResult EXCEPT !.op = c.op, !.F = F, !.parg = parg,
                     !.P = EffectivePolicy(parg, build), !.chan = "rejected"]
  /\ UNCHANGED <<build, args, pc, cur, stack, inflight, thrown, retval, calls,
                 ctorPols, trace, delivered, site, selected, outcome>>

\* divide_by: if (denominator == 0) return make_failure/failure<...>(...)
DivideByZeroBranch ==
  /\ pc = "divide_by"
  /\ args.d = 0
  /\ site' = CallSite(cur.F)
  /\ selected' = Select(CallSite(cur.F))
  /\ stack' = Append(stack, CallSite(cur.F).name)
  /\ ctorPols' = ctorPols \cup {FailurePolicy(cur.op, cur.parg, build)}
  /\ pc' = "failure_ctor"
  /\ UNCHANGED <<build, args, cur, inflight, thrown, retval, calls, trace,
                 delivered, prev, outcome>>

\* divide_by: return success<...>(static_cast<Result>(numerator) / denominator)
DivideBySuccessBranch ==
  /\ pc = "divide_by"
  /\ args.d # 0
  /\ stack' = Append(stack, "success")
  /\ ctorPols' = ctorPols \cup {SuccessPolicy(cur.op, cur.parg, build)}
  /\ pc' = "success_ctor"
  /\ UNCHANGED <<build, args, cur, inflight, thrown, retval, calls, trace,
                 delivered, prev, site, selected, outcome>>

\* success: builds the value and returns to divide_by
Success ==
  /\ pc = "success_ctor"
  /\ retval' = success(Quot(args.n, args.d), SuccessPolicy(cur.op, cur.parg, build))
  /\ stack' = Pop(stack)
  /\ pc' = "divide_by_return"
  /\ UNCHANGED <<build, args, cur, inflight, thrown, calls, ctorPols, trace,
                 delivered, prev, site, selected, outcome>>

\* a failure constructor ends: throw (its frame is left to the unwinding) or
\* return to divide_by
Construct(r) ==
  /\ calls' = calls \cup r.calls
  /\ IF r.chan = "thrown"
     THEN /\ inflight' = r.exc
          /\ thrown' = r.exc
          /\ pc' = "unwinding"
          /\ UNCHANGED <<retval, stack>>
     ELSE /\ retval' = r.val
          /\ stack' = Pop(stack)
          /\ pc' = "divide_by_return"
          /\ UNCHANGED <<inflight, thrown>>
  /\ UNCHANGED <<build, args, cur, ctorPols, trace, delivered, prev, site,
                 selected, outcome>>

MakeFailureFunctor ==
  /\ pc = "failure_ctor"
  /\ selected = "Functor"
  /\ Construct(make_failure_functor(FailurePolicy(cur.op, cur.parg, build), "DivideByZero"))

MakeFailureCallable ==
  /\ pc = "failure_ctor"
  /\ selected = "Callable"
  /\ Construct(make_failure_callable(FailurePolicy(cur.op, cur.parg, build), "DivideByZero"))

MakeFailureInPlace ==
  /\ pc = "failure_ctor"
  /\ selected = "InPlace"
  /\ Construct(make_failure_inplace(FailurePolicy(cur.op, cur.parg, build), "DivideByZero"))

\* auto err = DivideByError{Kind::DivideByZero}; failure<Result, P>(err)
FailureConversion ==
  /\ pc = "failure_ctor"
  /\ selected = "Conversion"
  /\ Construct(failure(FailurePolicy(cur.op, cur.parg, build), DivideByError("DivideByZero")))

\* divide_by: the return statement completes, converting to the return type
DivideByReturn ==
  /\ pc = "divide_by_return"
  /\ retval' = ReturnConvert(retval, ResultType(P))
  /\ stack' = Pop(stack)
  /\ trace' = Append(trace, "divide_by:return")
  /\ pc' = "caller_resume"
  /\ UNCHANGED <<build, args, cur, inflight, thrown, calls, ctorPols, delivered,
                 prev, site, selected, outcome>>

\* caller: the statement after the call runs with the returned value
CallerResume ==
  /\ pc = "caller_resume"
  /\ trace' = Append(trace, "caller:after_call")
  /\ prev' = [Result("returned") EXCEPT !.trace = Append(trace, "caller:after_call")]
  /\ pc' = "idle"
  /\ cur' = NoCall
  /\ UNCHANGED <<build, args, stack, inflight, thrown, retval, calls, ctorPols,
                 delivered, site, selected, outcome>>

\* stack unwinding leaves a frame that has no matching handler
Unwind ==
  /\ pc = "unwinding"
  /\ Len(stack) > 1
  /\ ~Matches(Handler(Top(stack)), inflight.type)
  /\ stack' = Pop(stack)
  /\ UNCHANGED <<build, args, pc, cur, inflight, thrown, retval, calls, ctorPols,
                 trace, delivered, prev, site, selected, outcome>>

\* the enclosing handler receives the exception
Catch ==
  /\ pc = "unwinding"
  /\ Matches(Handler(Top(stack)), inflight.type)
  /\ delivered' = delivered + 1
  /\ trace' = Append(trace, "caller:handler")
  /\ prev' = [Result("thrown") EXCEPT !.trace = Append(trace, "caller:handler"),
                                       !.delivered = delivered + 1]
  /\ pc' = "idle"
  /\ cur' = NoCall
  /\ UNCHANGED <<build, args, stack, inflight, thrown, retval, calls, ctorPols,
                 site, selected, outcome>>

\* no frame handles the exception: std::terminate
Terminate ==
  /\ pc = "unwinding"
  /\ Len(stack) = 1
  /\ ~Matches(Handler(Top(stack)), inflight.type)
  /\ pc' = "terminated"
  /\ UNCHANGED <<build, args, cur, stack, inflight, thrown, retval, calls,
                 ctorPols, trace, delivered, prev, site, selected, outcome>>

Next ==
  \/ Call
  \/ Reject
  \/ DivideByZeroBranch
  \/ DivideBySuccessBranch
  \/ Success
  \/ MakeFailureFunctor
  \/ MakeFailureCallable
  \/ MakeFailureInPlace
  \/ FailureConversion
  \/ DivideByReturn
  \/ CallerResume
  \/ Unwind
  \/ Catch
  \/ Terminate

Spec == Init /\ [][Next]_vars

\* -------------------------------------- resolution over arbitrary clients
\* the shapes a call of make_failure or failure can have: the function
\* name, the explicit template argument after the result and error types,
\* the number of function arguments, and which expressions the concepts ask
\* for are valid for the error type, helper type and arguments of the call
CallShapes ==
  {s \in [name : {"make_failure", "failure"}, targ : {"none", "policy", "type"},
          nargs : 0..MaxArgs, unexpectedCallable : BOOLEAN,
          exceptionCallable : BOOLEAN, exceptionConstructable : BOOLEAN,
          functorException : BOOLEAN, functorUnexpected : BOOLEAN,
          exceptionConvertible : BOOLEAN] :
     /\ (s.unexpectedCallable \/ s.exceptionCallable) => s.nargs >= 2
     /\ (s.functorException \/ s.functorUnexpected) => s.targ = "type"
     /\ s.exceptionConvertible => s.nargs = 1}

\* if constexpr (P == Policy::Exceptions) throw ...; else return ...;
Channel(p) == IF p = "Exceptions" THEN "thrown" ELSE "returned"

InitResolve ==
  /\ build \in BuildValues
  /\ args = [n |-> 0, d |-> 0]
  /\ pc = "resolve"
  /\ cur \in {[NoCall EXCEPT !.parg = p] : p \in PolicyArgs}
  /\ stack = <<"caller">>
  /\ inflight = NoExc
  /\ thrown = NoExc
  /\ retval = NoVal
  /\ calls = {}
  /\ ctorPols = {}
  /\ trace = <<>>
  /\ delivered = 0
  /\ prev = NoResult
  /\ site \in CallShapes
  /\ selected = "unresolved"
  /\ outcome = "none"

\* the build resolves the call; without a viable overload it stops there
Resolve ==
  /\ pc = "resolve"
  /\ selected' = Select(site)
  /\ pc' = IF Select(site) \in Overloads THEN "failure_ctor" ELSE "rejected"
  /\ UNCHANGED <<build, args, cur, stack, inflight, thrown, retval, calls,
                 ctorPols, trace, delivered, prev, site, outcome>>

\* the resolved constructor runs
Invoke ==
  /\ pc = "failure_ctor"
  /\ outcome' = Channel(P)
  /\ pc' = "done"
  /\ UNCHANGED <<build, args, cur, stack, inflight, thrown, retval, calls,
                 ctorPols, trace, delivered, prev, site, selected>>

NextResolve == Resolve \/ Invoke

SpecResolve == InitResolve /\ [][NextResolve]_vars

\* ================================================================ claims
\* the constructor called by divide_by has finished
AfterConstructor == pc \in {"divide_by_return", "caller_resume", "unwinding", "terminated"}
Finished(r) == r.chan \in {"returned", "thrown"}
Half == [num |-> 1, den |-> 2]

\* C1: policy duality. Once the constructor has acted, a call has exactly
\* one outcome, a value on the return path or an exception in flight, never
\* both and never neither; under Exceptions a zero denominator throws and
\* never returns; under Expected nothing is ever thrown and a zero
\* denominator returns a result with has_value() false.
C1_PolicyDuality ==
  /\ AfterConstructor => ((inflight # NoExc) # (retval # NoVal))
  /\ Finished(prev) => ((prev.chan = "thrown") # (prev.ret # NoVal))
  /\ Finished(prev) => ((prev.chan = "thrown") <=> (prev.exc # NoExc))
  /\ (AfterConstructor /\ P = "Exceptions" /\ args.d = 0)
       => (pc \in {"unwinding", "terminated"} /\ retval = NoVal)
  /\ (Finished(prev) /\ prev.P = "Exceptions" /\ args.d = 0) => prev.chan = "thrown"
  /\ P = "Expected" => (pc \notin {"unwinding", "terminated"} /\ inflight = NoExc)
  /\ (Finished(prev) /\ prev.P = "Expected") => prev.chan = "returned"
  /\ (pc = "caller_resume" /\ P = "Expected" /\ args.d = 0)
       => (retval.tag = "expected" /\ ~retval.has_value)
  /\ (Finished(prev) /\ prev.P = "Expected" /\ args.d = 0)
       => (prev.ret.tag = "expected" /\ ~prev.ret.has_value)

C1_Witness ==
  /\ prev.chan = "thrown" /\ prev.P = "Exceptions" /\ prev.F = "Callable"
  /\ pc = "caller_resume" /\ P = "Expected" /\ args.d = 0 /\ ~retval.has_value

\* C2: strategy equivalence. Two calls with the same policy and the same
\* arguments, whatever their failure strategies, end the same way: under
\* Expected the returned error payloads are equal (same kind, same str()),
\* under Exceptions the what() strings of the exceptions are identical.
C2_StrategyEquivalence ==
  /\ (pc = "caller_resume" /\ Finished(prev) /\ prev.P = P)
       => (prev.chan = "returned" /\ prev.ret = retval)
  /\ (pc = "caller_resume" /\ Finished(prev) /\ prev.P = P /\ args.d = 0)
       => /\ retval.err.kind = prev.ret.err.kind
          /\ str(retval.err) = str(prev.ret.err)
  /\ (pc \in {"unwinding", "terminated"} /\ Finished(prev) /\ prev.P = P)
       => (prev.chan = "thrown" /\ prev.exc.what = inflight.what)

C2_Witness ==
  /\ pc = "unwinding" /\ cur.F = "Conversion" /\ inflight.what = "Division by Zero"
  /\ prev.chan = "thrown" /\ prev.F = "InPlace" /\ prev.P = P

\* C3: success fidelity. success never throws and carries the quotient
\* unchanged: the bare value under Exceptions, a result with has_value() and
\* that value under Expected; divide_by(n, d) with d # 0 yields n/d under
\* both policies and every strategy (divide_by(1, 2) yields 0.5).
C3_SuccessFidelity ==
  /\ args.d # 0 => (pc \notin {"unwinding", "terminated"} /\ inflight = NoExc)
  /\ (pc = "divide_by_return" /\ args.d # 0)
       => /\ retval.has_value
          /\ retval.val = Quot(args.n, args.d)
          /\ retval.tag = ResultType(SuccessPolicy(cur.op, cur.parg, build))
  /\ (pc = "caller_resume" /\ args.d # 0)
       => /\ retval.has_value
          /\ retval.val = Quot(args.n, args.d)
          /\ retval.tag = ResultType(P)
          /\ retval.err = NoErr
  /\ (pc = "caller_resume" /\ args = [n |-> 1, d |-> 2]) => retval.val = Half
  /\ (Finished(prev) /\ args.d # 0)
       => (prev.chan = "returned" /\ prev.ret.val = Quot(args.n, args.d))

C3_Witness ==
  /\ pc = "caller_resume" /\ args = [n |-> 1, d |-> 2]
  /\ P = "Expected" /\ cur.F = "Functor" /\ retval = ExpectedValue(Half)

\* C4: policy override. A call naming a policy is built and signals through
\* that policy on both paths, every constructor in the operation body being
\* instantiated with it; a call naming none uses DefaultPolicy.
C4_PolicyOverride ==
  /\ prev.parg \in Policy
       => /\ prev.chan # "rejected"
          /\ prev.ctorPols \subseteq {prev.parg}
          /\ prev.chan = "returned" => prev.ret.tag = ResultType(prev.parg)
          /\ prev.chan = "thrown" => prev.parg = "Exceptions"
  /\ prev.parg = "omitted" => prev.ctorPols \subseteq {DefaultPolicy(build)}

\* C5: default policy. Without a build-time override DefaultPolicy is
\* Exceptions: a call naming no policy returns the bare quotient and, for a
\* zero denominator, throws runtime_error "Division by Zero", with every
\* strategy; and under any build a call naming no policy ends as the same
\* call naming DefaultPolicy does.
C5_DefaultPolicy ==
  /\ (build = "unset" /\ cur.parg = "omitted" /\ pc = "caller_resume")
       => (args.d # 0 /\ retval = Bare(Quot(args.n, args.d)))
  /\ (build = "unset" /\ cur.parg = "omitted" /\ AfterConstructor /\ args.d = 0)
       => (pc \in {"unwinding", "terminated"}
           /\ inflight = [type |-> "runtime_error", what |-> "Division by Zero"])
  /\ (build = "unset" /\ cur.parg = "omitted" /\ pc = "caller_resume"
        /\ args = [n |-> 1, d |-> 2]) => retval.val = Half
  /\ (Finished(prev) /\ prev.op = cur.op /\ prev.F = cur.F
        /\ prev.parg = DefaultPolicy(build) /\ cur.parg = "omitted")
       => /\ pc = "caller_resume" => (prev.chan = "returned" /\ prev.ret = retval)
          /\ pc \in {"unwinding", "terminated"}
               => (prev.chan = "thrown" /\ prev.exc = inflight)

C5_Witness ==
  /\ build = "unset" /\ cur.parg = "omitted" /\ cur.F = "Conversion"
  /\ pc = "unwinding" /\ inflight.what = "Division by Zero"
  /\ prev.parg = "Exceptions" /\ prev.F = "Conversion" /\ prev.chan = "thrown"

\* C6: cross-policy content preservation. The same strategy and arguments
\* under the other policy change the channel and nothing else: the str() of
\* the error an Expected call returns equals the what() of the exception the
\* Exceptions call throws, and both are "Division by Zero".
C6_CrossPolicy ==
  /\ (pc = "caller_resume" /\ args.d = 0 /\ Finished(prev) /\ prev.op = cur.op
        /\ prev.F = cur.F /\ prev.P # P)
       => /\ prev.chan = "thrown"
          /\ str(retval.err) = prev.exc.what
          /\ prev.exc.what = "Division by Zero"
  /\ (pc \in {"unwinding", "terminated"} /\ Finished(prev) /\ prev.op = cur.op
        /\ prev.F = cur.F /\ prev.P # P)
       => /\ prev.chan = "returned"
          /\ ~prev.ret.has_value
          /\ inflight.what = str(prev.ret.err)
          /\ inflight.what = "Division by Zero"

C6_Witness ==
  /\ pc = "unwinding" /\ cur.F = "Conversion" /\ P = "Exceptions"
  /\ prev.F = "Conversion" /\ prev.P = "Expected" /\ prev.chan = "returned"
  /\ str(prev.ret.err) = inflight.what

\* the capability shapes the call satisfies
Shapes(s) == {o \in Overloads : Constraint(o, s)}

\* the strategy the author names: failure() with an instance, a helper type
\* as template argument, or two callables as leading arguments
Explicit(s) ==
  IF s.name = "failure" THEN (IF s.targ = "type" THEN "malformed" ELSE "Conversion")
  ELSE IF s.targ = "type" THEN "Functor"
  ELSE IF s.nargs >= 2 /\ UnexpectedCallable(s) /\ ExceptionCallable(s) THEN "Callable"
  ELSE "auto"

Order == <<"InPlace", "Functor", "Callable", "Conversion">>
First(S) == Order[CHOOSE i \in 1..4 : Order[i] \in S /\ \A j \in 1..(i - 1) : Order[j] \notin S]

C8_Gating ==
  /\ selected \in Overloads => Constraint(selected, site)
  /\ (selected # "unresolved" /\ Shapes(site) = {})
       => (selected = "rejected" /\ pc = "rejected")
  /\ Shapes(site) = {} => outcome = "none"
  /\ outcome # "none" => (selected \in Overloads /\ Constraint(selected, site))

C8_Witness ==
  /\ pc = "rejected" /\ Shapes(site) = {} /\ site.name = "make_failure"
  /\ site.targ = "policy" /\ site.nargs = 1 /\ outcome = "none"

\* what holds of an exception in flight and of a delivered one
C9_Delivered ==
  /\ pc \in {"unwinding", "terminated"}
       => (inflight = thrown /\ thrown # NoExc /\ trace = <<>> /\ delivered = 0)
  /\ prev.chan = "thrown"
       => /\ prev.delivered = 1
          /\ prev.exc = prev.thrown
          /\ prev.exc.what = "Division by Zero"
          /\ prev.trace = <<"caller:handler">>

\* what a step of the unwinding may do
C9_Step ==
  /\ (pc = "unwinding" /\ pc' = "unwinding")
       => /\ stack' = Pop(stack)
          /\ Handler(Top(stack)) \notin {"runtime_error", "exception"}
          /\ inflight' = inflight
  /\ (pc = "unwinding" /\ pc' = "idle")
       => /\ stack = <<"caller">>
          /\ cur.handler \in {"runtime_error", "exception"}
          /\ prev'.exc = thrown
          /\ delivered' = 1
  /\ (pc = "unwinding" /\ pc' = "terminated")
       => (stack = <<"caller">> /\ cur.handler = "none")
  /\ pc = "unwinding" => pc' \in {"unwinding", "idle", "terminated"}

\* C9: fault propagation. The exception in flight is the object the factory
\* built, unmodified; unwinding leaves one frame at a time, only frames
\* whose handler does not match; it is delivered once, to the caller's
\* handler for std::runtime_error or std::exception, never to a frame of the
\* library or of divide_by; no statement after the failing call has run; and
\* without a matching handler the program terminates.
C9_Propagation == [](C9_Delivered) /\ [][C9_Step]_vars

C9_Witness ==
  /\ prev.chan = "thrown" /\ prev.delivered = 1 /\ prev.F = "Functor"
  /\ prev.exc.what = "Division by Zero" /\ pc = "idle"

\* the construction path of overload o under policy p
PathOf(o, p) ==
  CASE o = "Functor" -> IF p = "Exceptions" THEN "Functor::exception" ELSE "Functor::unexpected"
    [] o = "Callable" -> IF p = "Exceptions" THEN "exception(args)" ELSE "unexpected(args)"
    [] o = "InPlace" -> IF p = "Exceptions" THEN "Error::exception" ELSE "Error{args}"
    [] o = "Conversion" -> IF p = "Exceptions" THEN "error.exception()" ELSE "unexpected(error)"

\* C10: the unused channel is never exercised. A failure constructor
\* evaluates exactly one construction path, the one of the active policy:
\* under Exceptions the exception factory of the selected strategy and no
\* error value, under Expected the error-value path and no exception.
C10_UnusedChannel ==
  /\ (AfterConstructor /\ args.d = 0)
       => /\ calls = {PathOf(selected, P)}
          /\ P = "Exceptions" => (calls \subseteq ExceptionPaths /\ retval = NoVal)
          /\ P = "Expected" => (calls \subseteq ValuePaths /\ thrown = NoExc)
  /\ (Finished(prev) /\ args.d = 0)
       => /\ Cardinality(prev.calls) = 1
          /\ prev.P = "Exceptions" => prev.calls \subseteq ExceptionPaths
          /\ prev.P = "Expected" => prev.calls \subseteq ValuePaths
  /\ args.d # 0 => calls = {}

C10_Witness ==
  /\ pc = "divide_by_return" /\ selected = "Functor" /\ P = "Expected"
  /\ calls = {"Functor::unexpected"} /\ thrown = NoExc

====
